---- MODULE Spec2Model ----
(***************************************************************************)
(* Orchestration model of the PDF indexing pipeline (run_indexing.py,      *)
(* indexing_pipeline.py) and of the insight server (app.py,                *)
(* retrieval_handler.py).                                                  *)
(*                                                                         *)
(* The indexing script is one asyncio program: asyncio.run(main()) drives  *)
(* a single-threaded event loop whose FIFO ready queue holds the handles   *)
(* of main, of one task per PDF, and of the gather callbacks.  The         *)
(* external collaborators (parser, embedding service, vector store,        *)
(* generation service) are modelled by their documented behaviour with     *)
(* their outcomes chosen nondeterministically.                             *)
(***************************************************************************)
EXTENDS Integers, Sequences, FiniteSets, TLC

VARIABLES
    store,          \* the persistent collection: a set of entries
    mainPc,         \* position of main(): "start", "gather", "returned", "raised"
    pdf_files,      \* main's list pdf_files (file names, listing order)
    pc,             \* per-file position of process_and_index_pdf_async
    parsed,         \* per-file local parsed_data
    resp,           \* per-file state of the embed_content_async call
    parseOut,       \* per-file: how the parser call ended in this run
    embedCalled,    \* per-file: embed_content_async was called in this run
    mustCancel,     \* per-file: task.cancel() was requested
    ready,          \* the event loop's FIFO queue of handles
    todo,           \* handles left to run in the current loop iteration
    thread,         \* who occupies the loop's thread: "idle" or a file name
    outer,          \* the future returned by asyncio.gather
    nfinished,      \* gather's count of finished children
    phase,          \* asyncio.run: "running", "stopping", "shutdown", "closed"
    retrieval_handler, \* app.py global: "unset", "ok" or "None"
    response,       \* last HTTP response of /get_insights
    request,        \* the body of the last request
    insights,       \* what get_insights_for_selection did for the last request
    calls           \* external calls made while serving the last request

indexVars == <<mainPc, pdf_files, pc, parsed, resp, parseOut, embedCalled,
               mustCancel, ready, todo,
               thread, outer, nfinished, phase>>
serverVars == <<retrieval_handler, response, request, insights, calls>>
vars == <<store, indexVars, serverVars>>

(***************************************************************************)
(* Bounds and program constants                                            *)
(***************************************************************************)
MaxChunks == 2          \* longest parser output considered
TopK == 5               \* retrieve_relevant_sections(top_k=5)

\* Files of the PDF directory.  A name is kept as stem and extension so that
\* the listing filter f.lower().endswith(".pdf") is computed, not assumed.
Directory ==
    { [stem |-> "a", ext |-> ".pdf"],
      [stem |-> "B", ext |-> ".PDF"],
      [stem |-> "notes", ext |-> ".txt"] }

Lower(s) ==
    CASE s = ".PDF" -> ".pdf"
      [] s = "B" -> "b"
      [] OTHER -> s

FileName(f) == f.stem \o f.ext

IsPdf(f) == Lower(f.ext) = ".pdf"

AllNames == { FileName(f) : f \in Directory }
PdfNames == { FileName(f) : f \in { g \in Directory : IsPdf(g) } }

\* Sequences without repetition over a set: the orders os.listdir may give.
RECURSIVE Orders(_)
Orders(S) ==
    IF S = {} THEN { <<>> }
    ELSE UNION { { <<x>> \o t : t \in Orders(S \ {x}) } : x \in S }

Listings == UNION { Orders(S) : S \in SUBSET AllNames }

RECURSIVE FilterPdf(_)
FilterPdf(listing) ==
    IF listing = <<>> THEN <<>>
    ELSE LET f == CHOOSE g \in Directory : FileName(g) = Head(listing)
         IN  (IF IsPdf(f) THEN <<Head(listing)>> ELSE <<>>)
             \o FilterPdf(Tail(listing))

Range(s) == { s[i] : i \in 1..Len(s) }

(***************************************************************************)
(* Parser output                                                           *)
(***************************************************************************)
\* The parser is a black box: what it returns for a file depends on the
\* file's content.  A file has one of the Revisions; section i of a revision
\* has that revision's text.
Revisions == {"x", "y"}

Chunk(d, i, rev) ==
    [document_name |-> d,
     page_number |-> i,
     section_title |-> IF i = 1 THEN "Intro" ELSE "Scope",
     full_path |-> IF i = 1 THEN <<"Intro">> ELSE <<"Intro", "Scope">>,
     content |-> rev]

ParseResults(d) ==
    { [i \in 1..n |-> Chunk(d, i, rev)] : n \in 0..MaxChunks, rev \in Revisions }

(***************************************************************************)
(* String helpers                                                          *)
(***************************************************************************)
RECURSIVE Join(_, _)
Join(parts, sep) ==
    IF parts = <<>> THEN ""
    ELSE IF Len(parts) = 1 THEN parts[1]
    ELSE parts[1] \o sep \o Join(Tail(parts), sep)

Digit(n) ==
    CASE n = 0 -> "0" [] n = 1 -> "1" [] n = 2 -> "2" [] n = 3 -> "3"
      [] n = 4 -> "4" [] n = 5 -> "5" [] n = 6 -> "6" [] n = 7 -> "7"
      [] n = 8 -> "8" [] n = 9 -> "9"

RECURSIVE Str(_)
Str(n) == IF n < 10 THEN Digit(n) ELSE Str(n \div 10) \o Digit(n % 10)

\* f"{os.path.basename(pdf_path)}_{i}"
MakeId(name, i) == name \o "_" \o Str(i)

\* _prepare_chunk_for_embedding
PrepareChunkForEmbedding(chunk) ==
    "Section Path: " \o Join(chunk.full_path, " > ")
        \o "\nContent: " \o chunk.content

\* the embedding service: one vector per text, tagged by the task type
Embed(text, task_type) == <<task_type, text>>

EmbedContent(texts, task_type) ==
    [i \in 1..Len(texts) |-> Embed(texts[i], task_type)]

Metadata(chunk) ==
    [document_name |-> chunk.document_name,
     page_number |-> chunk.page_number,
     section_title |-> chunk.section_title,
     full_path |-> Join(chunk.full_path, " > "),
     original_content |-> chunk.content]

TextsToEmbed(chunks) ==
    [i \in 1..Len(chunks) |-> PrepareChunkForEmbedding(chunks[i])]

\* the batch handed to collection.add: one entry per chunk, ids from enumerate
Batch(name, chunks, embeddings) ==
    [i \in 1..Len(chunks) |->
        [id |-> MakeId(name, i - 1),
         embedding |-> embeddings[i],
         document |-> TextsToEmbed(chunks)[i],
         metadata |-> Metadata(chunks[i])]]

Ids(S) == { e.id : e \in S }

\* collection.add of the persistent client: a record whose id is already in
\* the collection is skipped, the others are inserted; nothing is raised.
CollectionAdd(S, batch) ==
    S \cup { e \in Range(batch) : e.id \notin Ids(S) }

(***************************************************************************)
(* asyncio.run(main()) : the event loop                                    *)
(***************************************************************************)
Handle(kind, d) == [h |-> kind, d |-> d]

Finished ==
    {"skipped", "done", "failed_parse", "failed_embed", "failed_add",
     "cancelled"}

Failed == {"failed_parse", "failed_embed", "failed_add"}

Tasks == Range(pdf_files)

Unfinished == { d \in Tasks : pc[d] \notin Finished }

InReady(d) == \E i \in 1..Len(ready) : ready[i] = Handle("step", d)

StepHandles(order) == [i \in 1..Len(order) |-> Handle("step", order[i])]

NoResponse == [status |-> 0, body |-> [none |-> TRUE]]

IndexInit ==
    /\ mainPc = "start"
    /\ pdf_files = <<>>
    /\ pc = [d \in PdfNames |-> "none"]
    /\ parsed = [d \in PdfNames |-> <<>>]
    /\ resp = [d \in PdfNames |-> "none"]
    /\ parseOut = [d \in PdfNames |-> "none"]
    /\ embedCalled = [d \in PdfNames |-> FALSE]
    /\ mustCancel = [d \in PdfNames |-> FALSE]
    /\ ready = << Handle("main", "") >>
    /\ todo = 0
    /\ thread = "idle"
    /\ outer = "none"
    /\ nfinished = 0
    /\ phase = "running"

ServerIdle ==
    /\ retrieval_handler = "unset"
    /\ response = NoResponse
    /\ request = [t |-> "none"]
    /\ insights = [kind |-> "notcalled"]
    /\ calls = <<>>

Init ==
    /\ store = {}
    /\ IndexInit
    /\ ServerIdle

\* BaseEventLoop._run_once, first half: poll for I/O, queue the wake-ups of
\* the tasks whose response has arrived, fix the handles of this iteration.
Poll ==
    /\ phase \in {"running", "shutdown"}
    /\ thread = "idle"
    /\ todo = 0
    /\ LET arrived == { d \in Tasks : /\ pc[d] = "awaiting"
                                      /\ resp[d] \in {"ok", "error"}
                                      /\ ~InReady(d) }
       IN  \E order \in Orders(arrived) :
              /\ ready' = ready \o StepHandles(order)
              /\ Len(ready') > 0
              /\ todo' = Len(ready')
    /\ UNCHANGED <<parseOut, embedCalled, store, mainPc, pdf_files, pc, parsed, resp, mustCancel,
                   thread, outer, nfinished, phase, serverVars>>

\* The guard common to running the handle at the head of the queue.
Runs(kind, d) ==
    /\ phase # "closed"
    /\ thread = "idle"
    /\ todo > 0
    /\ Head(ready) = Handle(kind, d)

\* main(), lines 19-34 and 41-43: a failed configuration check, a failed
\* pipeline construction or an empty listing make main return at once.
MainReturnsEarly ==
    /\ Runs("main", "")
    /\ mainPc = "start"
    /\ \E cause \in {"no_api_key", "no_model_files", "no_pdf_directory",
                     "pipeline_init_failed", "no_pdf_files"} :
          \E listing \in Listings :
             /\ cause = "no_pdf_files" => FilterPdf(listing) = <<>>
             /\ mainPc' = "returned"
    /\ ready' = Tail(ready) \o << Handle("stop", "") >>
    /\ todo' = todo - 1
    /\ UNCHANGED <<parseOut, embedCalled, store, pdf_files, pc, parsed, resp, mustCancel, thread,
                   outer, nfinished, phase, serverVars>>

\* main(), lines 40-59: list the PDFs, create one coroutine per file and
\* await asyncio.gather(*tasks), which schedules every task's first step.
MainGather ==
    /\ Runs("main", "")
    /\ mainPc = "start"
    /\ \E listing \in Listings :
          /\ FilterPdf(listing) # <<>>
          /\ pdf_files' = FilterPdf(listing)
          /\ pc' = [d \in PdfNames |->
                      IF d \in Range(FilterPdf(listing)) THEN "created"
                      ELSE "none"]
          /\ ready' = Tail(ready) \o StepHandles(FilterPdf(listing))
    /\ mainPc' = "gather"
    /\ outer' = "pending"
    /\ todo' = todo - 1
    /\ UNCHANGED <<parseOut, embedCalled, store, parsed, resp, mustCancel, thread, nfinished, phase,
                   serverVars>>

\* process_and_index_pdf_async, lines 47-52: the task's first step enters
\* parse_document_to_sections, a synchronous call on the loop's thread.
ParseBegin(d) ==
    /\ Runs("step", d)
    /\ pc[d] = "created"
    /\ ~mustCancel[d]
    /\ pc' = [pc EXCEPT ![d] = "parsing"]
    /\ thread' = d
    /\ ready' = Tail(ready)
    /\ todo' = todo - 1
    /\ UNCHANGED <<parseOut, embedCalled, store, mainPc, pdf_files, parsed, resp, mustCancel, outer,
                   nfinished, phase, serverVars>>

\* What parse_document_to_sections can do: raise, or return a list of
\* sections, possibly empty.
ParserOutcomes(d) ==
    { [raised |-> TRUE, sections |-> <<>>] }
        \cup { [raised |-> FALSE, sections |-> r] : r \in ParseResults(d) }

ParseOutcomeKind(out) ==
    IF out.raised THEN "raised"
    ELSE IF out.sections = <<>> THEN "empty" ELSE "sections"

\* AfterParse without the `if not parsed_data: return` of lines 53-55.
AfterParse_NoEmptyCheck(out) ==
    IF out.raised THEN "failed_parse" ELSE "awaiting"

\* Where the coroutine is after line 52 returned or raised: an exception
\* ends the task, `if not parsed_data: return` (lines 53-55) ends it
\* normally, otherwise it goes on to the embedding call of lines 63-67.
AfterParse(out) ==
    IF out.raised THEN "failed_parse"
    ELSE IF out.sections = <<>> THEN "skipped"
    ELSE "awaiting"

\* lines 52-67: the parser call ends.  With sections the texts are prepared,
\* the embedding request is sent and the task suspends on it; otherwise the
\* task is over and its done-callback is scheduled.
ParseEnd(d) ==
    /\ thread = d
    /\ pc[d] = "parsing"
    /\ \E out \in ParserOutcomes(d) :
          /\ parseOut' = [parseOut EXCEPT ![d] = ParseOutcomeKind(out)]
          /\ pc' = [pc EXCEPT ![d] = AfterParse(out)]
          /\ IF AfterParse(out) = "awaiting"
             THEN /\ parsed' = [parsed EXCEPT ![d] = out.sections]
                  /\ resp' = [resp EXCEPT ![d] = "pending"]
                  /\ embedCalled' = [embedCalled EXCEPT ![d] = TRUE]
                  /\ ready' = ready
             ELSE /\ ready' = ready \o << Handle("gather_cb", d) >>
                  /\ UNCHANGED <<parsed, resp, embedCalled>>
    /\ thread' = "idle"
    /\ UNCHANGED <<store, mainPc, pdf_files, mustCancel, todo, outer,
                   nfinished, phase, serverVars>>

\* The embedding service answers (or fails); the answer waits at the socket
\* until the loop polls.
EmbedResponse(d) ==
    /\ pc[d] = "awaiting"
    /\ resp[d] = "pending"
    /\ ~mustCancel[d]
    /\ \E outcome \in {"ok", "error"} :
          resp' = [resp EXCEPT ![d] = outcome]
    /\ UNCHANGED <<parseOut, embedCalled, store, mainPc, pdf_files, pc, parsed, mustCancel, ready,
                   todo, thread, outer, nfinished, phase, serverVars>>

\* lines 70-96: the await returned the embeddings; build the batch and add it.
ResumeAndAdd(d) ==
    /\ Runs("step", d)
    /\ pc[d] = "awaiting"
    /\ ~mustCancel[d]
    /\ resp[d] = "ok"
    /\ store' = CollectionAdd(store,
                    Batch(d, parsed[d],
                          EmbedContent(TextsToEmbed(parsed[d]),
                                       "RETRIEVAL_DOCUMENT")))
    /\ pc' = [pc EXCEPT ![d] = "done"]
    /\ parsed' = [parsed EXCEPT ![d] = <<>>]
    /\ resp' = [resp EXCEPT ![d] = "none"]
    /\ ready' = Tail(ready) \o << Handle("gather_cb", d) >>
    /\ todo' = todo - 1
    /\ UNCHANGED <<parseOut, embedCalled, mainPc, pdf_files, mustCancel, thread, outer, nfinished,
                   phase, serverVars>>

\* lines 63-67 raise (the embedding call failed), or the store rejects the
\* batch at lines 89-94: the exception ends the task, nothing is written.
ResumeAndFail(d) ==
    /\ Runs("step", d)
    /\ pc[d] = "awaiting"
    /\ ~mustCancel[d]
    /\ \/ /\ resp[d] = "error"
          /\ pc' = [pc EXCEPT ![d] = "failed_embed"]
       \/ /\ resp[d] = "ok"
          /\ pc' = [pc EXCEPT ![d] = "failed_add"]
    /\ parsed' = [parsed EXCEPT ![d] = <<>>]
    /\ resp' = [resp EXCEPT ![d] = "none"]
    /\ ready' = Tail(ready) \o << Handle("gather_cb", d) >>
    /\ todo' = todo - 1
    /\ UNCHANGED <<parseOut, embedCalled, store, mainPc, pdf_files, mustCancel, thread, outer,
                   nfinished, phase, serverVars>>

\* A task whose cancellation was requested gets CancelledError thrown in at
\* its next step and ends cancelled.
StepCancelled(d) ==
    /\ Runs("step", d)
    /\ mustCancel[d]
    /\ pc[d] \in {"created", "awaiting"}
    /\ pc' = [pc EXCEPT ![d] = "cancelled"]
    /\ parsed' = [parsed EXCEPT ![d] = <<>>]
    /\ resp' = [resp EXCEPT ![d] = "none"]
    /\ ready' = Tail(ready) \o << Handle("gather_cb", d) >>
    /\ todo' = todo - 1
    /\ UNCHANGED <<parseOut, embedCalled, store, mainPc, pdf_files, mustCancel, thread, outer,
                   nfinished, phase, serverVars>>

\* gather's _done_callback with return_exceptions=False (line 59): the first
\* child that failed or was cancelled sets the exception on the outer future;
\* otherwise the last child to finish sets the result.
GatherCallback(d) ==
    /\ Runs("gather_cb", d)
    /\ nfinished' = nfinished + 1
    /\ IF outer # "pending"
       THEN /\ outer' = outer
            /\ ready' = Tail(ready)
       ELSE IF pc[d] \in Failed \cup {"cancelled"}
       THEN /\ outer' = "exception"
            /\ ready' = Tail(ready) \o << Handle("main", "") >>
       ELSE IF nfinished + 1 = Len(pdf_files)
       THEN /\ outer' = "result"
            /\ ready' = Tail(ready) \o << Handle("main", "") >>
       ELSE /\ outer' = outer
            /\ ready' = Tail(ready)
    /\ todo' = todo - 1
    /\ UNCHANGED <<parseOut, embedCalled, store, mainPc, pdf_files, pc, parsed, resp, mustCancel,
                   thread, phase, serverVars>>

\* main resumes from `await asyncio.gather(*tasks)`: with the results it
\* prints and returns (lines 61-62), with an exception it raises.
MainResume ==
    /\ Runs("main", "")
    /\ mainPc = "gather"
    /\ outer \in {"result", "exception"}
    /\ mainPc' = IF outer = "result" THEN "returned" ELSE "raised"
    /\ ready' = Tail(ready) \o << Handle("stop", "") >>
    /\ todo' = todo - 1
    /\ UNCHANGED <<parseOut, embedCalled, store, pdf_files, pc, parsed, resp, mustCancel, thread,
                   outer, nfinished, phase, serverVars>>

\* run_until_complete's callback on the finished main task: loop.stop().
\* The loop still runs the rest of the current iteration.
LoopStop ==
    /\ Runs("stop", "")
    /\ phase' = "stopping"
    /\ ready' = Tail(ready)
    /\ todo' = todo - 1
    /\ UNCHANGED <<parseOut, embedCalled, store, mainPc, pdf_files, pc, parsed, resp, mustCancel,
                   thread, outer, nfinished, serverVars>>

\* asyncio.run's finally (line 66): every task still unfinished is cancelled
\* and the loop runs until the cancelled tasks have ended.
CancelAllTasks ==
    /\ phase = "stopping"
    /\ thread = "idle"
    /\ todo = 0
    /\ mustCancel' = [d \in PdfNames |-> mustCancel[d] \/ d \in Unfinished]
    /\ \E order \in Orders({ d \in Unfinished : ~InReady(d) }) :
          ready' = ready \o StepHandles(order)
    /\ phase' = "shutdown"
    /\ UNCHANGED <<parseOut, embedCalled, store, mainPc, pdf_files, pc, parsed, resp, thread, todo,
                   outer, nfinished, serverVars>>

\* Every task has ended: the loop is closed and the process exits.
LoopClose ==
    /\ phase = "shutdown"
    /\ thread = "idle"
    /\ todo = 0
    /\ Unfinished = {}
    /\ phase' = "closed"
    /\ ready' = <<>>
    /\ UNCHANGED <<parseOut, embedCalled, store, mainPc, pdf_files, pc, parsed, resp, mustCancel,
                   thread, todo, outer, nfinished, serverVars>>

\* The script is run again on the same persistent store.
NewRun ==
    /\ phase = "closed"
    /\ mainPc' = "start"
    /\ pdf_files' = <<>>
    /\ pc' = [d \in PdfNames |-> "none"]
    /\ parsed' = [d \in PdfNames |-> <<>>]
    /\ resp' = [d \in PdfNames |-> "none"]
    /\ parseOut' = [d \in PdfNames |-> "none"]
    /\ embedCalled' = [d \in PdfNames |-> FALSE]
    /\ mustCancel' = [d \in PdfNames |-> FALSE]
    /\ ready' = << Handle("main", "") >>
    /\ todo' = 0
    /\ thread' = "idle"
    /\ outer' = "none"
    /\ nfinished' = 0
    /\ phase' = "running"
    /\ UNCHANGED <<store, serverVars>>

NextIndexing ==
    \/ Poll
    \/ MainReturnsEarly
    \/ MainGather
    \/ \E d \in PdfNames : ParseBegin(d)
    \/ \E d \in PdfNames : ParseEnd(d)
    \/ \E d \in PdfNames : EmbedResponse(d)
    \/ \E d \in PdfNames : ResumeAndAdd(d)
    \/ \E d \in PdfNames : ResumeAndFail(d)
    \/ \E d \in PdfNames : StepCancelled(d)
    \/ \E d \in PdfNames : GatherCallback(d)
    \/ MainResume
    \/ LoopStop
    \/ CancelAllTasks
    \/ LoopClose
    \/ NewRun

Spec == Init /\ [][NextIndexing]_vars

(***************************************************************************)
(* Properties of the indexing run                                          *)
(***************************************************************************)
\* The step in which task d returns from collection.add.
Indexed(d) == pc[d] = "awaiting" /\ pc'[d] = "done"

NewBatch(d) ==
    Batch(d, parsed[d],
          EmbedContent(TextsToEmbed(parsed[d]), "RETRIEVAL_DOCUMENT"))

\* C1: when one document's parse raised, no other task that holds parsed
\* sections and whose embedding call has not failed is stopped short of
\* writing its entries: it keeps waiting or it writes (or the store itself
\* rejects the batch); in particular it is never cancelled.
C1_FailureIsolated ==
    [][\A d \in PdfNames :
          /\ \E f \in PdfNames \ {d} : parseOut[f] = "raised"
          /\ pc[d] = "awaiting"
          /\ resp[d] # "error"
          => pc'[d] \in {"awaiting", "done", "failed_add"}]_vars

\* C2: the store holds at most one entry per identifier, and a completed
\* indexing of a document leaves, under each identifier of its batch, the
\* newly computed vector, text and metadata.
C2_UpsertReplaces ==
    [][/\ \A e1, e2 \in store' : e1.id = e2.id => e1 = e2
       /\ \A d \in PdfNames :
             Indexed(d) => Range(NewBatch(d)) \subseteq store']_vars

\* C7: a successful indexing of a document with n parsed sections creates
\* exactly n entries, whose identifiers are the n distinct strings
\* "<file name>_<i>", i = 0..n-1.
C7_OneEntryPerChunk ==
    [][\A d \in PdfNames :
          Indexed(d) =>
             LET n == Len(parsed[d])
                 created == store' \ store
             IN  /\ Cardinality(created) = n
                 /\ Cardinality(Ids(created)) = n
                 /\ Ids(created) = { MakeId(d, i) : i \in 0..(n - 1) }]_vars

\* C8: main has not returned or raised while a per-document task is still
\* unfinished.
C8_JoinBeforeMainEnds ==
    mainPc \in {"returned", "raised"} => Unfinished = {}

\* C9: when the parser returns no sections the coroutine returns normally
\* (the task ends "skipped", not failed), no embedding call is made for the
\* document, and the step leaves the store as it was.
C9_EmptyParseIsNoOp ==
    [][\A d \in PdfNames :
          parseOut'[d] = "empty" =>
             /\ pc'[d] = "skipped"
             /\ ~embedCalled'[d]
             /\ resp'[d] = "none"
             /\ (parseOut[d] # "empty" => store' = store)]_vars

C9_Witness ==
    \E d \in PdfNames :
       /\ parseOut[d] = "empty"
       /\ pc[d] = "skipped"
       /\ store # {}
       /\ \E e \in PdfNames \ {d} : pc[e] = "done"

\* What the event loop can do for task e once its response has arrived:
\* poll it in, or run its queued step.
LoopTurn(e) == Poll \/ ResumeAndAdd(e) \/ ResumeAndFail(e)

\* C10: while one document is being parsed, a task whose embedding response
\* has arrived can take its next step.
C10_ParseDoesNotStall ==
    \A d, e \in PdfNames :
       /\ pc[d] = "parsing"
       /\ e # d
       /\ pc[e] = "awaiting"
       /\ resp[e] = "ok"
       => ENABLED LoopTurn(e)

(***************************************************************************)
(* retrieval_handler.py                                                    *)
(***************************************************************************)
NoContextMsg ==
    "No relevant context was found in your library to generate insights."
GenErrorMsg == "Error: Could not generate insights due to an API issue."

\* Texts the embedding service places close to each other: a selection that
\* quotes a revision's text and the sections holding that text.
TextsAbout(rev) ==
    {rev} \cup { PrepareChunkForEmbedding(Chunk(d, i, rev)) :
                    d \in PdfNames, i \in 1..MaxChunks }

Distance(u, v) ==
    IF \E rev \in Revisions : u[2] \in TextsAbout(rev) /\ v[2] \in TextsAbout(rev)
    THEN 0 ELSE 1

\* The entries of S by increasing distance to the query vector (ties in a
\* fixed arbitrary order).
RECURSIVE Ranked(_, _)
Ranked(S, q) ==
    IF S = {} THEN <<>>
    ELSE LET e == CHOOSE x \in S :
                     \A y \in S : Distance(q, x.embedding) <= Distance(q, y.embedding)
         IN  <<e>> \o Ranked(S \ {e}, q)

Min(a, b) == IF a <= b THEN a ELSE b

\* collection.query(query_embeddings=[q], n_results=top_k)['metadatas'][0]
CollectionQuery(S, q, top_k) ==
    LET hits == SubSeq(Ranked(S, q), 1, Min(top_k, Cardinality(S)))
    IN  [i \in 1..Len(hits) |-> hits[i].metadata]

Call(name, arg, outcome) == [call |-> name, arg |-> arg, outcome |-> outcome]

\* What the collaborators do during one request.
\* (A call that is not reached is given its first outcome.)
Environments ==
    { e \in [embed : {"ok", "raise"},
             query : {"ok", "raise"},
             gen : {"ok", "raise_call", "raise_text"},
             text : {"", " Insights.\n"}] :
         /\ e.embed = "raise" => e.query = "ok"
         /\ (e.embed = "raise" \/ e.query = "raise") => e.gen = "ok"
         /\ (e.embed = "raise" \/ e.query = "raise" \/ e.gen # "ok")
               => e.text = "" }

\* str.strip on the texts the generation service returns here
Strip(t) == IF t = " Insights.\n" THEN "Insights." ELSE t

\* retrieve_relevant_sections, lines 59-84
RetrieveRelevantSections(user_selection, S, env) ==
    LET embedCall == Call("embed_content", user_selection, env.embed)
        q == Embed(user_selection, "RETRIEVAL_QUERY")
        queryCall == Call("collection.query", user_selection, env.query)
    IN  IF env.embed = "raise"
        THEN [raised |-> TRUE, sections |-> <<>>, calls |-> <<embedCall>>]
        ELSE IF env.query = "raise"
        THEN [raised |-> TRUE, sections |-> <<>>,
              calls |-> <<embedCall, queryCall>>]
        ELSE [raised |-> FALSE, sections |-> CollectionQuery(S, q, TopK),
              calls |-> <<embedCall, queryCall>>]

\* lines 97-100
RECURSIVE ContextStr(_)
ContextStr(sections) ==
    IF sections = <<>> THEN ""
    ELSE LET item == sections[1]
             one == "From '" \o item.document_name \o "' (Page "
                        \o Str(item.page_number) \o "):\n"
                        \o item.original_content
         IN  IF Len(sections) = 1 THEN one
             ELSE one \o "\n\n---\n\n" \o ContextStr(Tail(sections))

\* INSIGHTS_PROMPT_TEMPLATE.format(context=..., user_selection=...)
Prompt(context, user_selection) ==
    "...\n---\nCONTEXT:\n" \o context \o "\n---\n\nUSER'S SELECTED TEXT:\n\""
        \o user_selection \o "\"\n\n---\nINSIGHTS:\n"

\* generate_insights with the try/except of lines 108-114 removed.
GenerateInsights_Propagates(user_selection, context_sections, env) ==
    IF context_sections = <<>>
    THEN [raised |-> FALSE, text |-> NoContextMsg, calls |-> <<>>]
    ELSE LET c == Call("generate_content",
                       Prompt(ContextStr(context_sections), user_selection),
                       env.gen)
         IN  IF env.gen = "ok"
             THEN [raised |-> FALSE, text |-> Strip(env.text), calls |-> <<c>>]
             ELSE [raised |-> TRUE, text |-> "", calls |-> <<c>>]

\* generate_insights without the early return of lines 91-92.
GenerateInsights_NoShortCircuit(user_selection, context_sections, env) ==
    LET c == Call("generate_content",
                  Prompt(ContextStr(context_sections), user_selection),
                  env.gen)
    IN  IF env.gen = "ok"
        THEN [raised |-> FALSE, text |-> Strip(env.text), calls |-> <<c>>]
        ELSE [raised |-> FALSE, text |-> GenErrorMsg, calls |-> <<c>>]

\* generate_insights, lines 86-114
GenerateInsights(user_selection, context_sections, env) ==
    IF context_sections = <<>>
    THEN [raised |-> FALSE, text |-> NoContextMsg, calls |-> <<>>]
    ELSE LET c == Call("generate_content",
                       Prompt(ContextStr(context_sections), user_selection),
                       env.gen)
         IN  IF env.gen = "ok"
             THEN [raised |-> FALSE, text |-> Strip(env.text), calls |-> <<c>>]
             ELSE [raised |-> FALSE, text |-> GenErrorMsg, calls |-> <<c>>]

\* get_insights_for_selection, lines 116-126
GetInsightsForSelection(user_selection, S, env) ==
    LET r == RetrieveRelevantSections(user_selection, S, env)
        g == GenerateInsights(user_selection, r.sections, env)
    IN  IF r.raised
        THEN [kind |-> "raised", calls |-> r.calls]
        ELSE IF g.raised
        THEN [kind |-> "raised", calls |-> r.calls \o g.calls]
        ELSE [kind |-> "returned",
              value |-> [retrieved_sections |-> r.sections,
                         generated_insights |-> g.text],
              calls |-> r.calls \o g.calls]

(***************************************************************************)
(* app.py                                                                  *)
(***************************************************************************)
\* A request body.  t is "invalid" for a body that is not JSON, else the
\* type of the JSON value; s is the text of a string, number or boolean;
\* items are the elements of a list or the keys of an object; sel is the
\* value under "selection" of an object that has that key.
Absent == [t |-> "absent", s |-> ""]

JVal(t, s, items, sel) == [t |-> t, s |-> s, items |-> items, sel |-> sel]

Selections ==
    { [t |-> "str", s |-> "x"], [t |-> "str", s |-> "light"],
      [t |-> "str", s |-> ""], [t |-> "num", s |-> "5"],
      [t |-> "null", s |-> ""] }

Bodies ==
    { JVal("invalid", "{selection", <<>>, Absent),
      JVal("null", "", <<>>, Absent),
      JVal("bool", "true", <<>>, Absent),
      JVal("bool", "false", <<>>, Absent),
      JVal("num", "0", <<>>, Absent),
      JVal("num", "5", <<>>, Absent),
      JVal("str", "", <<>>, Absent),
      JVal("str", "abc", <<>>, Absent),
      JVal("str", "selection", <<>>, Absent),
      JVal("list", "", <<>>, Absent),
      JVal("list", "", <<"x">>, Absent),
      JVal("list", "", <<"selection">>, Absent),
      JVal("obj", "", <<>>, Absent),
      JVal("obj", "", <<"text">>, Absent) }
    \cup { JVal("obj", "", <<"selection">>, v) : v \in Selections }

\* Python truthiness of a decoded JSON value
Truthy(v) ==
    CASE v.t = "null" -> FALSE
      [] v.t = "bool" -> v.s = "true"
      [] v.t = "num" -> v.s # "0"
      [] v.t = "str" -> v.s # ""
      [] v.t \in {"list", "obj"} -> v.items # <<>>

\* `key in v`: membership for a list, key lookup for a dict, substring for a
\* str (decided here for the strings of Bodies), TypeError otherwise.
Contains(v, key) ==
    CASE v.t \in {"list", "obj"} ->
            [raised |-> FALSE, value |-> key \in Range(v.items)]
      [] v.t = "str" -> [raised |-> FALSE, value |-> v.s = key]
      [] OTHER -> [raised |-> TRUE, value |-> FALSE]

\* `v[key]` with a str key: the value of a dict, TypeError for a list or str
GetItem(v, key) ==
    IF v.t = "obj" /\ key \in Range(v.items)
    THEN [raised |-> FALSE, value |-> v.sel]
    ELSE [raised |-> TRUE, value |-> Absent]

\* `v[:50]` raises TypeError unless v is a sequence type
SliceRaises(v) == v.t \notin {"str", "list"}

Reply(status, body) == [status |-> status, body |-> body]
Outcome(reply, ins, cs) == [response |-> reply, insights |-> ins, calls |-> cs]

NotCalled == [kind |-> "notcalled"]

\* an exception that leaves the view function: Flask answers 500
Unhandled == Reply(500, [error |-> "Internal Server Error"])

\* lines 32-45, entered with a handler object h
Serve(h, body, S, env) ==
    IF body.t = "invalid"
    THEN Outcome(Reply(400, [error |-> "Bad Request"]), NotCalled, <<>>)
    ELSE IF ~Truthy(body)
    THEN Outcome(Reply(400, [error |-> "Missing 'selection' key in request body."]),
                 NotCalled, <<>>)
    ELSE IF Contains(body, "selection").raised
    THEN Outcome(Unhandled, NotCalled, <<>>)
    ELSE IF ~Contains(body, "selection").value
    THEN Outcome(Reply(400, [error |-> "Missing 'selection' key in request body."]),
                 NotCalled, <<>>)
    ELSE IF GetItem(body, "selection").raised
    THEN Outcome(Unhandled, NotCalled, <<>>)
    ELSE IF SliceRaises(GetItem(body, "selection").value)
    THEN Outcome(Unhandled, NotCalled, <<>>)
    ELSE IF h = "None"
    THEN Outcome(Reply(500, [error |-> "An internal error occurred."]),
                 NotCalled, <<>>)
    ELSE LET r == GetInsightsForSelection(GetItem(body, "selection").value.s,
                                          S, env)
         IN  IF r.kind = "returned"
             THEN Outcome(Reply(200, r.value), r, r.calls)
             ELSE Outcome(Reply(500, [error |-> "An internal error occurred."]),
                          r, r.calls)

\* get_insights without the check of lines 29-30
Endpoint_NoHandlerCheck(h, body, S, env) == Serve(h, body, S, env)

\* get_insights, lines 22-45
Endpoint(h, body, S, env) ==
    IF h = "None"
    THEN Outcome(Reply(500, [error |-> "Backend handler is not initialized."]),
                 NotCalled, <<>>)
    ELSE Serve(h, body, S, env)

\* lines 15-19 with RetrievalHandler.__init__ (lines 49-57): without a key,
\* or when the constructor raises, the global is None and the module loads on.
InitHandler(api_key, constructed) ==
    IF api_key /\ constructed THEN "ok" ELSE "None"

StartServer ==
    /\ retrieval_handler = "unset"
    /\ \E api_key \in BOOLEAN, constructed \in BOOLEAN :
          retrieval_handler' = InitHandler(api_key, constructed)
    /\ UNCHANGED <<store, indexVars, response, request, insights, calls>>

GetInsights ==
    /\ retrieval_handler \in {"ok", "None"}
    /\ \E body \in Bodies, env \in Environments :
          LET out == Endpoint(retrieval_handler, body, store, env)
          IN  /\ request' = body
              /\ response' = out.response
              /\ insights' = out.insights
              /\ calls' = out.calls
    /\ UNCHANGED <<store, indexVars, retrieval_handler>>

\* The collections an indexing run leaves on disk.
RECURSIVE AfterIndexing(_, _)
AfterIndexing(S, names) ==
    IF names = {} THEN {S}
    ELSE LET d == CHOOSE x \in names : TRUE
         IN  UNION { AfterIndexing(
                        CollectionAdd(S, Batch(d, r,
                            EmbedContent(TextsToEmbed(r), "RETRIEVAL_DOCUMENT"))),
                        names \ {d}) : r \in ParseResults(d) }

InitServer ==
    /\ store \in AfterIndexing({}, PdfNames)
    /\ IndexInit
    /\ ServerIdle

NextServer == StartServer \/ GetInsights

SpecServer == InitServer /\ [][NextServer]_vars

(***************************************************************************)
(* Properties of the server                                                *)
(***************************************************************************)
ResponseKeys == {"retrieved_sections", "generated_insights"}

Served == request.t # "none"

CallsTo(name) == { i \in 1..Len(calls) : calls[i].call = name }

RetrievalWorked ==
    /\ CallsTo("embed_content") # {}
    /\ CallsTo("collection.query") # {}
    /\ \A i \in 1..Len(calls) :
          calls[i].call \in {"embed_content", "collection.query"}
             => calls[i].outcome = "ok"

\* C3: whatever the selection, once the embedding and the store query have
\* answered, get_insights_for_selection returns a response with exactly the
\* keys retrieved_sections and generated_insights; with zero retrieved
\* sections generated_insights is the no-context string and the generation
\* service has not been called.
C3_BothKeysAlways ==
    /\ RetrievalWorked => insights.kind = "returned"
    /\ insights.kind = "returned" =>
          /\ DOMAIN insights.value = ResponseKeys
          /\ insights.value.retrieved_sections = <<>> =>
                /\ insights.value.generated_insights = NoContextMsg
                /\ CallsTo("generate_content") = {}

C3_Witness ==
    /\ insights.kind = "returned"
    /\ insights.value.retrieved_sections = <<>>
    /\ insights.value.generated_insights = NoContextMsg
    /\ request.sel.s = "light"

HasSelectionField(body) ==
    body.t = "obj" /\ "selection" \in Range(body.items)

\* C4: with an initialized handler, a body that is not valid JSON, or a JSON
\* value without a "selection" field, is answered 400 with an error message.
C4_MissingSelectionIs400 ==
    /\ retrieval_handler = "ok"
    /\ Served
    /\ ~HasSelectionField(request)
    => /\ response.status = 400
       /\ DOMAIN response.body = {"error"}

\* C5: when the handler could not be constructed the server still serves,
\* every request is answered 500 whatever its body, and no embedding, store
\* or generation call is made.
C5_UninitializedIs500 ==
    retrieval_handler = "None" =>
       /\ ENABLED GetInsights
       /\ Served =>
             /\ response.status = 500
             /\ calls = <<>>
             /\ insights.kind = "notcalled"

C5_Witness ==
    /\ retrieval_handler = "None"
    /\ HasSelectionField(request)
    /\ request.sel = [t |-> "str", s |-> "x"]
    /\ store # {}
    /\ response.status = 500

\* C6: when the generation call, or reading and trimming its text, raises,
\* the response is the normal two-key response carrying the fixed error
\* string, and the endpoint answers 200.
C6_GenerationFailureSwallowed ==
    \A i \in CallsTo("generate_content") :
       calls[i].outcome # "ok" =>
          /\ insights.kind = "returned"
          /\ DOMAIN insights.value = ResponseKeys
          /\ insights.value.generated_insights = GenErrorMsg
          /\ response.status = 200
          /\ response.body = insights.value

C6_Witness ==
    /\ \E i \in CallsTo("generate_content") : calls[i].outcome = "raise_text"
    /\ response.status = 200
    /\ response.body.generated_insights = GenErrorMsg
    /\ response.body.retrieved_sections # <<>>

====
